---- MODULE Spec2Model ----
(***************************************************************************)
(* dlib::poly_image<downsample>: a tool that fits a polynomial to every    *)
(* local pixel patch of an image.  The model follows the contract of       *)
(* dlib/image_keypoint/poly_image_abstract.h; the parts of the behaviour   *)
(* the header leaves to the implementation (the sliding-window extractor,  *)
(* the coordinate mapping, the byte layout, the error outcomes) follow     *)
(* the design description of the component.                                *)
(***************************************************************************)
EXTENDS Integers, Sequences, FiniteSets, TLC

VARIABLES
    downsample,  \* the template parameter of poly_image<downsample>
    inst,        \* the poly_image objects, by name
    ghost,       \* per object: the image given to the last load(), and whether
                 \* a load() completed since construction/clear/unload/setup
    out,         \* the byte stream written by serialize()
    last,        \* the call made by the latest step, with its outcome
    script,      \* progress of  H2.copy_configuration(H1); H1.load(img); H2.load(img)
    reload,      \* progress of  H.load(a); [H.unload();] H.load(b)
    pc,          \* per thread: position inside its copy_configuration() call
    overlap      \* TRUE once two copy_configuration() calls were in flight together

vars == <<downsample, inst, ghost, out, last, script, reload, pc, overlap>>

(***************************************************************************)
(* Bounds of the model and constants of the program                        *)
(***************************************************************************)
MaxDownsample == 2
MaxWindowArg == 5
MaxImageDim == 5
PointSlack == 2

DefaultOrder == 3
DefaultWindowSize == 13
MinOrder == 1
MaxOrder == 6
MinWindowSize == 3

\* the objects: H1 and H2 of the two-object specification, the object H of
\* the single-object specifications, and the shared source S with the
\* destinations D1 and D2 of the copying threads
Pair == {"H1", "H2"}
Single == "H"
Source == "S"
Threads == {"D1", "D2"}
Instances == Pair \cup {Single, Source} \cup Threads

NoImage == [rows |-> -1, cols |-> -1, seed |-> 0]

\* the images of the two-object specification: two 4x5 images of different
\* content (too small for the default window)
Images ==
    { [rows |-> 4, cols |-> 5, seed |-> 0],
      [rows |-> 4, cols |-> 5, seed |-> 1] }

\* the images of the single-object specification: every size up to the bound
GridImages == [rows : 0..MaxImageDim, cols : 0..MaxImageDim, seed : {0}]

\* the (order, window_size) arguments tried by the two-object specification
SetupArgs == { <<1, 3>>, <<2, 5>>, <<2, 4>> }

\* the arguments tried by the single-object specification: the orders at and
\* next to the limits, every window size from 1 to the bound
OrderArgs == {MinOrder - 1, MinOrder, MaxOrder, MaxOrder + 1}
WindowArgs == (MinWindowSize - 2)..MaxWindowArg

(***************************************************************************)
(* The external image container: rows, columns, pixel_at(r, c)             *)
(***************************************************************************)
pixel_at(img, r, c) == (img.seed * (r + 1) + r * img.cols + c) % 4

(***************************************************************************)
(* Design Matrix Builder and Fit Operator Cache                            *)
(***************************************************************************)
\* the monomials x^i y^j of total degree <= order, by increasing total
\* degree and then by increasing exponent of y; the constant term is first
RECURSIVE TermsOfDegree(_, _)
TermsOfDegree(d, j) ==
    IF j > d THEN <<>> ELSE <<<<d - j, j>>>> \o TermsOfDegree(d, j + 1)

RECURSIVE TermsUpTo(_, _)
TermsUpTo(order, d) ==
    IF d > order THEN <<>> ELSE TermsOfDegree(d, 0) \o TermsUpTo(order, d + 1)

term_count(order) == Len(TermsUpTo(order, 0))

margin_of(window_size) == (window_size - 1) \div 2

\* The pseudo-inverse solver is an external collaborator.  The fit operator
\* is kept as what determines it: the configuration its design matrix was
\* built for, with its shape, term_count x window_size^2.
build_filters(order, window_size) ==
    [ order  |-> order,
      window |-> window_size,
      rows   |-> term_count(order),
      cols   |-> window_size * window_size ]

ValidConfiguration_no_parity(order, window_size) ==
    /\ MinOrder <= order /\ order <= MaxOrder
    /\ window_size >= MinWindowSize

ValidConfiguration(order, window_size) ==
    /\ MinOrder <= order /\ order <= MaxOrder
    /\ window_size >= MinWindowSize /\ window_size % 2 = 1

(***************************************************************************)
(* The object                                                              *)
(***************************************************************************)
NoGrid == [p \in {} |-> <<>>]

InitialValue ==
    [ order       |-> DefaultOrder,
      window_size |-> DefaultWindowSize,
      filters     |-> build_filters(DefaultOrder, DefaultWindowSize),
      num_rows    |-> 0,
      num_cols    |-> 0,
      poly_coef   |-> NoGrid ]

get_order(H) == H.order
get_window_size(H) == H.window_size
nr(H) == H.num_rows
nc(H) == H.num_cols
size(H) == nr(H) * nc(H)
\* the coefficients of an order get_order() polynomial, except the constant term
get_num_dimensions(H) == term_count(H.order) - 1

clear(H) == InitialValue

setup_keeps_grid(H, order, window_size) ==
    [H EXCEPT !.order = order, !.window_size = window_size,
              !.filters = build_filters(order, window_size)]

setup(H, order, window_size) ==
    [ order       |-> order,
      window_size |-> window_size,
      filters     |-> build_filters(order, window_size),
      num_rows    |-> 0,
      num_cols    |-> 0,
      poly_coef   |-> NoGrid ]

unload_rows_only(H) == [H EXCEPT !.num_rows = 0]

unload(H) == [H EXCEPT !.num_rows = 0, !.num_cols = 0, !.poly_coef = NoGrid]

\* the state copy_configuration() copies, in order: all of it except what
\* load() populates
ConfigurationFields == <<"order", "window_size", "filters">>

copy_field_stale(H, item, f) ==
    IF f = "filters" THEN H ELSE [H EXCEPT ![f] = item[f]]

copy_field(H, item, f) == [H EXCEPT ![f] = item[f]]

copy_configuration_order_only(H, item) == [H EXCEPT !.order = item.order]

copy_configuration(H, item) ==
    copy_field(copy_field(copy_field(H, item, ConfigurationFields[1]),
                          item, ConfigurationFields[2]),
               item, ConfigurationFields[3])

(***************************************************************************)
(* Sliding-Window Extractor                                                *)
(***************************************************************************)
\* the image pixel at the centre of feature location k along one axis
center_of(k, window_size) == k * downsample + margin_of(window_size)

\* a location is admissible only if the full window fits inside the image
window_fits(center, extent, window_size) ==
    /\ center - margin_of(window_size) >= 0
    /\ center + margin_of(window_size) <= extent - 1

admissible(extent, window_size) ==
    { k \in 0..extent : window_fits(center_of(k, window_size), extent, window_size) }

\* the window's intensities, row-major
gather(img, r, c, window_size) ==
    [ k \in 1..(window_size * window_size) |->
        pixel_at(img,
                 center_of(r, window_size) - margin_of(window_size)
                     + ((k - 1) \div window_size),
                 center_of(c, window_size) - margin_of(window_size)
                     + ((k - 1) % window_size)) ]

\* fit_operator * intensities, normalised by the constant term, which is
\* then dropped: get_num_dimensions() components
descriptor(H, img, r, c) ==
    [ fit  |-> H.filters,
      dims |-> get_num_dimensions(H),
      x    |-> gather(img, r, c, H.window_size) ]

extract(H, img) ==
    LET rows == Cardinality(admissible(img.rows, H.window_size))
        cols == Cardinality(admissible(img.cols, H.window_size))
    IN  [ num_rows |-> rows,
          num_cols |-> cols,
          grid     |-> [ p \in (0..(rows - 1)) \X (0..(cols - 1)) |->
                           descriptor(H, img, p[1], p[2]) ] ]

load_once(H, img) ==
    IF H.num_rows > 0 THEN H
    ELSE LET e == extract(H, img)
         IN  [H EXCEPT !.num_rows = e.num_rows, !.num_cols = e.num_cols,
                       !.poly_coef = e.grid]

load_transposed(H, img) ==
    LET e == extract(H, img)
    IN  [H EXCEPT !.num_rows = e.num_cols, !.num_cols = e.num_rows,
                  !.poly_coef = [p \in (0..(e.num_cols - 1)) \X (0..(e.num_rows - 1)) |->
                                    e.grid[<<p[2], p[1]>>]]]

load(H, img) ==
    LET e == extract(H, img)
    IN  [H EXCEPT !.num_rows = e.num_rows, !.num_cols = e.num_cols,
                  !.poly_coef = e.grid]

(***************************************************************************)
(* Coordinate Mapper                                                       *)
(***************************************************************************)
image_to_feat_space(H, p) ==
    [ x |-> (p.x - margin_of(H.window_size)) \div downsample,
      y |-> (p.y - margin_of(H.window_size)) \div downsample ]

feat_to_image_space_no_margin(H, p) ==
    [x |-> p.x * downsample, y |-> p.y * downsample]

feat_to_image_space(H, p) ==
    [ x |-> p.x * downsample + margin_of(H.window_size),
      y |-> p.y * downsample + margin_of(H.window_size) ]

(***************************************************************************)
(* Serializer: order then window_size, each as a length-prefixed           *)
(* little-endian integer                                                   *)
(***************************************************************************)
RECURSIVE le_bytes(_)
le_bytes(n) == IF n = 0 THEN <<>> ELSE <<n % 256>> \o le_bytes(n \div 256)

pack_int(n) ==
    LET b == le_bytes(IF n < 0 THEN -n ELSE n)
    IN  <<Len(b) + (IF n < 0 THEN 128 ELSE 0)>> \o b

RECURSIVE le_value(_)
le_value(b) == IF b = <<>> THEN 0 ELSE b[1] + 256 * le_value(Tail(b))

unpack_int(s) ==
    IF s = <<>> \/ Len(s) < 1 + (s[1] % 128) \/ (s[1] % 128) > 8
    THEN [ok |-> FALSE, value |-> 0, rest |-> <<>>]
    ELSE LET n == s[1] % 128
             v == le_value(SubSeq(s, 2, n + 1))
         IN  [ ok    |-> TRUE,
               value |-> IF s[1] >= 128 THEN -v ELSE v,
               rest  |-> SubSeq(s, n + 2, Len(s)) ]

serialize(H) == pack_int(H.order) \o pack_int(H.window_size)

\* what deserialize() reads: [ok, order, window_size]
parse(in) ==
    LET o == unpack_int(in)
        w == unpack_int(o.rest)
    IN  [ ok          |-> o.ok /\ w.ok /\ ValidConfiguration(o.value, w.value),
          order       |-> o.value,
          window_size |-> w.value ]

deserialize(H, in) == setup(H, parse(in).order, parse(in).window_size)

\* the states CorruptData may leave the target in: unchanged or unconfigured
corrupt_outcomes(H) == {H, clear(H)}

\* a setup() call that fails with InvalidConfiguration
setup_rejected(H, order, window_size) == H

(***************************************************************************)
(* The calls, as steps                                                     *)
(***************************************************************************)
Origin == [x |-> 0, y |-> 0]

NoCall ==
    [ op |-> "none", h |-> Source, err |-> "ok", order |-> 0, window_size |-> 0,
      img |-> NoImage, item |-> Source, input |-> <<>>, from_out |-> FALSE,
      p |-> Origin, result |-> Origin ]

Call(op, h) == [NoCall EXCEPT !.op = op, !.h = h]

NoScript == [stage |-> 0, dst |-> Source, src |-> Source, img |-> NoImage]
NoReload == [stage |-> "none", h |-> Source, first |-> NoImage]

NeverLoaded == [img |-> NoImage, loaded |-> FALSE]

\* H2.copy_configuration(H1); H1.load(img); H2.load(img), with nothing between,
\* followed on the objects H1 and H2
ScriptStep(c) ==
    IF c.h \notin Pair
    THEN NoScript
    ELSE IF c.op = "copy_configuration"
    THEN [stage |-> 1, dst |-> c.h, src |-> c.item, img |-> NoImage]
    ELSE IF script.stage = 1 /\ c.op = "load" /\ c.h = script.src
    THEN [script EXCEPT !.stage = 2, !.img = c.img]
    ELSE IF script.stage = 2 /\ c.op = "load" /\ c.h = script.dst /\ c.img = script.img
    THEN [script EXCEPT !.stage = 3]
    ELSE NoScript

\* H.load(a); H.load(b)  and  H.load(a); H.unload(); H.load(b)
ReloadStep(c) ==
    IF c.h \notin Pair
    THEN NoReload
    ELSE IF c.op = "load"
    THEN IF reload.h = c.h /\ reload.stage \in {"L", "LL", "LUL"}
         THEN [stage |-> "LL", h |-> c.h, first |-> ghost[c.h].img]
         ELSE IF reload.h = c.h /\ reload.stage = "LU"
         THEN [reload EXCEPT !.stage = "LUL"]
         ELSE [stage |-> "L", h |-> c.h, first |-> c.img]
    ELSE IF c.op = "unload" /\ reload.h = c.h /\ reload.stage \in {"L", "LL", "LUL"}
    THEN [stage |-> "LU", h |-> c.h, first |-> ghost[c.h].img]
    ELSE NoReload

\* one call c that takes object c.h to state H
Step(c, H, g) ==
    /\ inst' = [inst EXCEPT ![c.h] = H]
    /\ ghost' = [ghost EXCEPT ![c.h] = g]
    /\ last' = c
    /\ script' = ScriptStep(c)
    /\ reload' = ReloadStep(c)
    /\ UNCHANGED <<downsample, pc, overlap>>

ClearCall(h) ==
    Step(Call("clear", h), clear(inst[h]), NeverLoaded) /\ UNCHANGED out

SetupCall(h, order, window_size) ==
    LET c == [Call("setup", h) EXCEPT !.order = order, !.window_size = window_size]
    IN  /\ IF ValidConfiguration(order, window_size)
           THEN Step(c, setup(inst[h], order, window_size), NeverLoaded)
           ELSE Step([c EXCEPT !.err = "InvalidConfiguration"],
                     setup_rejected(inst[h], order, window_size), ghost[h])
        /\ UNCHANGED out

CopyConfigurationCall(h, item) ==
    /\ Step([Call("copy_configuration", h) EXCEPT !.item = item],
            copy_configuration(inst[h], inst[item]), ghost[h])
    /\ UNCHANGED out

LoadCall(h, img) ==
    /\ Step([Call("load", h) EXCEPT !.img = img], load(inst[h], img),
            [img |-> img, loaded |-> TRUE])
    /\ UNCHANGED out

UnloadCall(h) ==
    Step(Call("unload", h), unload(inst[h]), NeverLoaded) /\ UNCHANGED out

NoStream == [bytes |-> <<>>, from |-> Source, order |-> 0, window_size |-> 0]

\* serialize(item, out): item is const; the stream remembers what it was written from
SerializeCall(h) ==
    /\ Step(Call("serialize", h), inst[h], ghost[h])
    /\ out' = [ bytes       |-> serialize(inst[h]),
                from        |-> h,
                order       |-> get_order(inst[h]),
                window_size |-> get_window_size(inst[h]) ]

\* a malformed input: an order of 7
CorruptSamples == { <<1, 7, 1, 3>> }

DeserializeCall(h, in) ==
    LET c == [Call("deserialize", h) EXCEPT
                 !.input = in, !.from_out = (in = out.bytes /\ in # <<>>)]
    IN  /\ IF parse(in).ok
           THEN Step(c, deserialize(inst[h], in), NeverLoaded)
           ELSE \E H \in corrupt_outcomes(inst[h]) :
                    Step([c EXCEPT !.err = "CorruptData"], H,
                         IF H = inst[h] THEN ghost[h] ELSE NeverLoaded)
        /\ UNCHANGED out

(***************************************************************************)
(* Two objects, every operation                                            *)
(***************************************************************************)
Init ==
    /\ downsample \in 1..MaxDownsample
    /\ inst = [h \in Instances |-> InitialValue]
    /\ ghost = [h \in Instances |-> NeverLoaded]
    /\ out = NoStream
    /\ last = NoCall
    /\ script = NoScript
    /\ reload = NoReload
    /\ pc = [t \in Threads |-> 0]
    /\ overlap = FALSE

Clear == \E h \in Pair : ClearCall(h)
Setup == \E h \in Pair, a \in SetupArgs : SetupCall(h, a[1], a[2])
CopyConfiguration ==
    \E h \in Pair : \E item \in Pair \ {h} : CopyConfigurationCall(h, item)
Load == \E h \in Pair, img \in Images : LoadCall(h, img)
Unload == \E h \in Pair : UnloadCall(h)
Serialize == \E h \in Pair : SerializeCall(h)
Deserialize == \E h \in Pair, in \in {out.bytes} \cup CorruptSamples : DeserializeCall(h, in)

Next ==
    \/ Clear
    \/ Setup
    \/ CopyConfiguration
    \/ Load
    \/ Unload
    \/ Serialize
    \/ Deserialize

Spec == Init /\ [][Next]_vars

(***************************************************************************)
(* Claims about two objects                                                *)
(***************************************************************************)
SameState(A, B) ==
    /\ get_order(A) = get_order(B)
    /\ get_window_size(A) = get_window_size(B)
    /\ get_num_dimensions(A) = get_num_dimensions(B)
    /\ nr(A) = nr(B)
    /\ nc(A) = nc(B)
    /\ \A r \in 0..(nr(A) - 1), c \in 0..(nc(A) - 1) :
           A.poly_coef[<<r, c>>] = B.poly_coef[<<r, c>>]

\* C1: after H2.copy_configuration(H1); H1.load(img); H2.load(img), from any
\* reachable states of H1 and H2, both objects have the same order, window
\* size, number of dimensions, nr, nc and descriptors at every (row, col).
C1_CopyThenLoadSameState ==
    script.stage = 3 => SameState(inst[script.src], inst[script.dst])

C1_Witness ==
    /\ script.stage = 3
    /\ size(inst[script.dst]) > 0
    /\ get_order(inst[script.dst]) # DefaultOrder

\* a never-loaded object with the configuration of H
never_loaded(H) == copy_configuration(InitialValue, H)

\* C2: the state after load(img) depends only on the configuration and img:
\* after load(a); load(b) and after load(a); unload(); load(b), as after any
\* load(b), the object is in the state a never-loaded object with the same
\* configuration is in after load(b).
C2_LoadDependsOnConfigAndImage ==
    last.op = "load" =>
        inst[last.h] = load(never_loaded(inst[last.h]), last.img)

C2_Witness ==
    /\ last.op = "load"
    /\ reload.stage = "LL"
    /\ reload.first # last.img
    /\ size(inst[last.h]) > 0

\* C5: in every reachable state size() == nr()*nc(), which is the number of
\* cells of the feature grid; nr() == nc() == 0 while no load completed
\* since construction, clear(), unload() or setup(); clear() restores
\* order 3 and window size 13.
C5_SizeAndEmptyUnlessLoaded ==
    /\ \A h \in Pair :
          /\ size(inst[h]) = nr(inst[h]) * nc(inst[h])
          /\ Cardinality(DOMAIN inst[h].poly_coef) = size(inst[h])
          /\ ~ghost[h].loaded => nr(inst[h]) = 0 /\ nc(inst[h]) = 0
    /\ last.op = "clear" =>
          /\ get_order(inst[last.h]) = DefaultOrder
          /\ get_window_size(inst[last.h]) = DefaultWindowSize

C5_Witness ==
    /\ last.op = "unload"
    /\ reload.stage = "LU"
    /\ size(load(inst[last.h], reload.first)) > 0
    /\ size(inst[last.h]) = 0

\* C7: serialize() leaves the object unchanged, and deserialize() of what
\* serialize(x) wrote yields x's order and window size and size() == 0,
\* whether or not x, or the target, was loaded.
C7_RoundTrip ==
    [][ /\ last'.op = "serialize" => inst' = inst
        /\ (last'.op = "deserialize" /\ last'.from_out) =>
              /\ last'.err = "ok"
              /\ get_order(inst'[last'.h]) = out.order
              /\ get_window_size(inst'[last'.h]) = out.window_size
              /\ size(inst'[last'.h]) = 0 ]_vars

C7_Witness ==
    /\ last.op = "deserialize"
    /\ last.from_out
    /\ out.from # last.h
    /\ out.order # DefaultOrder
    /\ size(inst[out.from]) > 0
    /\ get_order(inst[last.h]) = get_order(inst[out.from])

(***************************************************************************)
(* One object, every configuration and every image size                    *)
(***************************************************************************)
GridClear == ClearCall(Single)
GridSetup == \E order \in OrderArgs, window_size \in WindowArgs :
                 SetupCall(Single, order, window_size)
GridLoad == \E img \in GridImages : LoadCall(Single, img)
GridUnload == UnloadCall(Single)

GridNext ==
    \/ GridClear
    \/ GridSetup
    \/ GridLoad
    \/ GridUnload

SpecGrid == Init /\ [][GridNext]_vars

Max(a, b) == IF a >= b THEN a ELSE b

\* C3: after load() of any image, size() > 0.
C3_LoadedSizePositive ==
    last.op = "load" => size(inst[last.h]) > 0

C6_SetupValidation ==
    [][ last'.op = "setup" =>
          IF /\ 1 <= last'.order /\ last'.order <= 6
             /\ last'.window_size >= 3 /\ last'.window_size % 2 = 1
          THEN /\ last'.err = "ok"
               /\ get_order(inst'[last'.h]) = last'.order
               /\ get_window_size(inst'[last'.h]) = last'.window_size
          ELSE /\ last'.err = "InvalidConfiguration"
               /\ inst' = inst ]_vars

C6_Witness ==
    /\ last.op = "setup"
    /\ last.err = "InvalidConfiguration"
    /\ last.window_size = 4
    /\ get_window_size(inst[last.h]) = 3
    /\ size(inst[last.h]) > 0

(***************************************************************************)
(* One object, the coordinate mapping                                      *)
(***************************************************************************)
MapSetupArgs == { <<1, 3>>, <<2, 5>> }

\* every number of rows up to the bound, the smallest and the largest width
\* a window fits in
MapImages == [rows : 0..MaxImageDim, cols : {MinWindowSize, MaxImageDim}, seed : {0}]

\* image points in and around the image given to the last load()
ImagePoints(h) ==
    [ x : (-PointSlack)..(ghost[h].img.cols + PointSlack),
      y : (-PointSlack)..(ghost[h].img.rows + PointSlack) ]

\* feature locations in and around the feature grid
FeaturePoints(h) == [x : -1..nc(inst[h]), y : -1..nr(inst[h])]

\* a const query: the object is left as it is
Query(c) == Step(c, inst[c.h], ghost[c.h]) /\ UNCHANGED out

ImageToFeatSpaceCall(h, p) ==
    Query([Call("image_to_feat_space", h) EXCEPT
              !.p = p, !.result = image_to_feat_space(inst[h], p)])

FeatToImageSpaceCall(h, p) ==
    Query([Call("feat_to_image_space", h) EXCEPT
              !.p = p, !.result = feat_to_image_space(inst[h], p)])

MapSetup == \E a \in MapSetupArgs : SetupCall(Single, a[1], a[2])
MapLoad == \E img \in MapImages : LoadCall(Single, img)
ImageToFeatSpace == \E p \in ImagePoints(Single) : ImageToFeatSpaceCall(Single, p)
FeatToImageSpace == \E p \in FeaturePoints(Single) : FeatToImageSpaceCall(Single, p)

MapNext ==
    \/ MapSetup
    \/ MapLoad
    \/ ImageToFeatSpace
    \/ FeatToImageSpace

SpecMap == Init /\ [][MapNext]_vars

\* p is inside the feature grid, [0,nr()) x [0,nc())
InGrid(H, p) == 0 <= p.y /\ p.y < nr(H) /\ 0 <= p.x /\ p.x < nc(H)

\* a window_size x window_size window centred at p fits inside the image
HasFeatureLocation(img, window_size, p) ==
    /\ window_fits(p.y, img.rows, window_size)
    /\ window_fits(p.x, img.cols, window_size)

Abs(a) == IF a < 0 THEN -a ELSE a

\* C8: an image point outside the loaded image, or in the border where a
\* window centred at it does not fit inside the image, maps through
\* image_to_feat_space() to a point outside [0,nr()) x [0,nc()).
C8_BorderPointsMapOutside ==
    ( /\ last.op = "image_to_feat_space"
      /\ ghost[last.h].loaded
      /\ ~HasFeatureLocation(ghost[last.h].img, get_window_size(inst[last.h]), last.p) )
    => ~InGrid(inst[last.h], last.result)

\* C9: for a feature location (row, col) of the grid,
\* image_to_feat_space(feat_to_image_space(point(row, col))) is within
\* downsample - 1 of (row, col) in each axis, and is (row, col) when
\* downsample == 1.
C9_FeatImageRoundTrip ==
    (last.op = "feat_to_image_space" /\ InGrid(inst[last.h], last.p)) =>
        LET q == image_to_feat_space(inst[last.h], last.result)
        IN  /\ Abs(q.x - last.p.x) <= downsample - 1
            /\ Abs(q.y - last.p.y) <= downsample - 1
            /\ downsample = 1 => q = last.p

C9_Witness ==
    /\ last.op = "feat_to_image_space"
    /\ InGrid(inst[last.h], last.p)
    /\ downsample > 1
    /\ last.p.x >= 1 /\ last.p.y >= 1
    /\ last.result = [x |-> last.p.x * downsample + 1, y |-> last.p.y * downsample + 1]
    /\ image_to_feat_space(inst[last.h], last.result) = last.p

(***************************************************************************)
(* Threads copying the configuration of one shared object                  *)
(***************************************************************************)
ThreadSetupArgs == { <<1, 3>>, <<2, 5>> }
ThreadImage == [rows |-> 4, cols |-> 5, seed |-> 0]

FieldCount == Len(ConfigurationFields)

\* thread t is inside its call D.copy_configuration(S)
InFlight(t) == 0 < pc[t] /\ pc[t] < FieldCount

\* an object may be used by a call when no other call is using it: the
\* source while no thread is copying from it, a destination while its own
\* thread is not copying into it
Free(h) ==
    IF h = Source THEN \A t \in Threads : ~InFlight(t) ELSE ~InFlight(h)

\* thread t copies the next piece of the configuration of S into its own
\* object; the calls of the other threads may be anywhere
CopyStep(t) ==
    /\ pc[t] < FieldCount
    /\ inst' = [inst EXCEPT
                   ![t] = copy_field(inst[t], inst[Source],
                                     ConfigurationFields[pc[t] + 1])]
    /\ pc' = [pc EXCEPT ![t] = pc[t] + 1]
    /\ overlap' = (overlap \/ \E u \in Threads \ {t} : InFlight(u))
    /\ last' = [Call("copy_configuration", t) EXCEPT !.item = Source]
    /\ UNCHANGED <<downsample, ghost, out, script, reload>>

ThreadCopy == \E t \in Threads : CopyStep(t)
ThreadSetup ==
    \E h \in Threads \cup {Source}, a \in ThreadSetupArgs :
        Free(h) /\ SetupCall(h, a[1], a[2])
ThreadLoad == \E h \in Threads \cup {Source} : Free(h) /\ LoadCall(h, ThreadImage)
ThreadUnload == \E h \in Threads \cup {Source} : Free(h) /\ UnloadCall(h)

ThreadNext ==
    \/ ThreadCopy
    \/ ThreadSetup
    \/ ThreadLoad
    \/ ThreadUnload

SpecThreads == Init /\ [][ThreadNext]_vars

SameConfiguration(A, B) ==
    /\ get_order(A) = get_order(B)
    /\ get_window_size(A) = get_window_size(B)
    /\ A.filters = B.filters

\* C10: while threads copy the configuration of the shared source into their
\* own objects, under every interleaving, each step changes only the object
\* it is made on (the source is never changed by a copy, and no call on one
\* object changes another), and a thread whose copy_configuration() returns
\* leaves its object with the source's order, window size and filters.
C10_ConcurrentCopyConfiguration ==
    [][ /\ \A g \in Instances : g # last'.h => inst'[g] = inst[g]
        /\ \A t \in Threads :
              (pc[t] < FieldCount /\ pc'[t] = FieldCount) =>
                  SameConfiguration(inst'[t], inst'[Source]) ]_vars

C10_Witness ==
    /\ overlap
    /\ \A t \in Threads : pc[t] = FieldCount
    /\ get_order(inst[Source]) = 2
    /\ size(inst[Source]) = 0
    /\ inst["D1"].filters = inst[Source].filters
    /\ get_order(inst["D2"]) = 1
    /\ size(inst["D2"]) > 0

====
